---- MODULE Spec2Model ----
(***************************************************************************)
(* Model of src/agent.py: the morphing-detection pipeline.                 *)
(*                                                                         *)
(* A Python str is a sequence of one-character strings, so that find,      *)
(* rfind, split, replace, slicing, json.dumps and json.loads are computed  *)
(* character by character, as the interpreter computes them.  The          *)
(* backquote character, which a TLA+ string cannot hold, is written        *)
(* "<backtick>".                                                           *)
(***************************************************************************)
EXTENDS Integers, Sequences, FiniteSets, TLC

(***************************************************************************)
(* Python str operations used by the program                               *)
(***************************************************************************)

\* sub occurs in s at (1-based) position i
MatchAt(sub, s, i) ==
    /\ i >= 1
    /\ i + Len(sub) - 1 <= Len(s)
    /\ \A k \in 1..Len(sub) : s[i + k - 1] = sub[k]

\* the positions at or after from where sub occurs in s
Occurrences(sub, s, from) ==
    {i \in from..(Len(s) - Len(sub) + 1) : MatchAt(sub, s, i)}

SetMin(S) == CHOOSE x \in S : \A y \in S : x <= y

SetMax(S) == CHOOSE x \in S : \A y \in S : x >= y

\* str.find(sub) + 1, searching from position from: 0 when sub does not occur
FindFrom(sub, s, from) ==
    LET occ == Occurrences(sub, s, from)
    IN  IF occ = {} THEN 0 ELSE SetMin(occ)

\* str.find(sub) + 1
Find(sub, s) == FindFrom(sub, s, 1)

\* str.rfind(sub) + 1
RFind(sub, s) ==
    LET occ == Occurrences(sub, s, 1)
    IN  IF occ = {} THEN 0 ELSE SetMax(occ)

\* the test (sub in s)
Contains(sub, s) == Find(sub, s) # 0

\* s[a:b] for Python indexes 0 <= a, 0 <= b (0-based, b exclusive)
Slice(s, a, b) == SubSeq(s, a + 1, IF b > Len(s) THEN Len(s) ELSE b)

\* s.split(sep)[0]: the text before the first sep (all of s when there is none)
SplitPart0(s, sep) ==
    LET at == Find(sep, s)
    IN  IF at = 0 THEN s ELSE SubSeq(s, 1, at - 1)

\* s.split(sep)[1], for s that contains sep: the text between the first sep
\* and the next one (or the end of s)
SplitPart1(s, sep) ==
    LET rest == SubSeq(s, Find(sep, s) + Len(sep), Len(s))
    IN  SplitPart0(rest, sep)

\* s.endswith(suffix)
EndsWith(s, suffix) ==
    /\ Len(suffix) <= Len(s)
    /\ SubSeq(s, Len(s) - Len(suffix) + 1, Len(s)) = suffix

\* s.startswith(prefix)
StartsWith(s, prefix) == MatchAt(prefix, s, 1)

UpperCase == <<"A", "B", "C", "D", "E", "F", "G", "H", "I", "J", "K", "L", "M", "N", "O", "P", "Q", "R", "S", "T", "U", "V", "W", "X", "Y", "Z">>

LowerCase == <<"a", "b", "c", "d", "e", "f", "g", "h", "i", "j", "k", "l", "m", "n", "o", "p", "q", "r", "s", "t", "u", "v", "w", "x", "y", "z">>

LowerChar(c) ==
    IF \E k \in 1..Len(UpperCase) : UpperCase[k] = c
    THEN LowerCase[CHOOSE k \in 1..Len(UpperCase) : UpperCase[k] = c]
    ELSE c

\* s.lower()
Lower(s) == [k \in 1..Len(s) |-> LowerChar(s[k])]

RECURSIVE Replace(_, _, _)
\* s.replace(old, new), for a non-empty old: every occurrence, left to right
Replace(s, old, new) ==
    LET at == Find(old, s)
    IN  IF at = 0
        THEN s
        ELSE SubSeq(s, 1, at - 1) \o new
                \o Replace(SubSeq(s, at + Len(old), Len(s)), old, new)

WhiteSpace == {" ", "\n", "\t"}

RECURSIVE LStrip(_)
LStrip(s) ==
    IF s # <<>> /\ Head(s) \in WhiteSpace THEN LStrip(Tail(s)) ELSE s

RECURSIVE RStrip(_)
RStrip(s) ==
    IF s # <<>> /\ s[Len(s)] \in WhiteSpace THEN RStrip(SubSeq(s, 1, Len(s) - 1)) ELSE s

\* s.strip()
Strip(s) == RStrip(LStrip(s))

\* os.path.basename(path)
Basename(path) == SubSeq(path, RFind(<<"/">>, path) + 1, Len(path))

\* os.path.join(a, b) for a relative b
PathJoin(a, b) ==
    IF a = <<>> \/ a[Len(a)] = "/" THEN a \o b ELSE a \o <<"/">> \o b

DigitChars == <<"0", "1", "2", "3", "4", "5", "6", "7", "8", "9">>

RECURSIVE IntToStr(_)
\* str(n) for n >= 0, as an f-string formats it
IntToStr(n) ==
    IF n < 10 THEN <<DigitChars[n + 1]>> ELSE IntToStr(n \div 10) \o <<DigitChars[(n % 10) + 1]>>

(***************************************************************************)
(* JSON values, json.loads and json.dumps                                  *)
(*                                                                         *)
(* A JSON value is a tagged record; an object is a function from its keys. *)
(* The decoder covers objects, arrays, strings (with the escapes \" \\ \/  *)
(* \n \t), non-negative integers, true, false and null.                    *)
(***************************************************************************)
JNull == [t |-> "null"]

JBool(b) == [t |-> "bool", b |-> b]

JNum(n) == [t |-> "num", n |-> n]

JStr(s) == [t |-> "str", s |-> s]

JArr(a) == [t |-> "arr", a |-> a]

JObj(o) == [t |-> "obj", o |-> o]

EmptyDict == [k \in {} |-> JNull]

\* a decoding step: ok, the value read, the position after it
Parsed(v, i) == [ok |-> TRUE, val |-> v, pos |-> i]

ParseFail == [ok |-> FALSE, val |-> JNull, pos |-> 0]

\* the position of the first character at or after i that is no white space
SkipWs(s, i) ==
    IF i > Len(s) \/ s[i] \notin WhiteSpace THEN i
    ELSE LET rest == {j \in i..Len(s) : s[j] \notin WhiteSpace}
         IN  IF rest = {} THEN Len(s) + 1 ELSE SetMin(rest)

IsDigit(c) == \E k \in 1..Len(DigitChars) : DigitChars[k] = c

DigitVal(c) == (CHOOSE k \in 1..Len(DigitChars) : DigitChars[k] = c) - 1

RECURSIVE ParseDigits(_, _, _)
ParseDigits(s, i, acc) ==
    IF i <= Len(s) /\ IsDigit(s[i])
    THEN ParseDigits(s, i + 1, acc * 10 + DigitVal(s[i]))
    ELSE Parsed(JNum(acc), i)

\* NUMBER_RE of json.scanner, integer part: 0 | [1-9][0-9]*
ParseNumber(s, i) ==
    IF s[i] = "0" THEN Parsed(JNum(0), i + 1) ELSE ParseDigits(s, i, 0)

Unescape(c) ==
    CASE c = "n" -> "\n"
      [] c = "t" -> "\t"
      [] OTHER -> c

RECURSIVE ParseStringBody(_, _, _)
\* py_scanstring (strict): i is the position after the opening quote, or
\* after the last escape.  As STRINGCHUNK does, it takes the characters up
\* to the next quote, backslash or control character, then looks at that one.
ParseStringBody(s, i, acc) ==
    LET stops == {j \in i..Len(s) : s[j] \in {"\"", "\\", "\n", "\t"}}
        j     == SetMin(stops)
        chunk == SubSeq(s, i, j - 1)
    IN  IF stops = {} THEN ParseFail
        ELSE IF s[j] = "\"" THEN Parsed(JStr(acc \o chunk), j + 1)
        ELSE IF s[j] # "\\" THEN ParseFail
        ELSE IF j + 1 <= Len(s) /\ s[j + 1] \in {"\"", "\\", "/", "n", "t"}
        THEN ParseStringBody(s, j + 2, acc \o chunk \o <<Unescape(s[j + 1])>>)
        ELSE ParseFail

RECURSIVE ParseValue(_, _)
RECURSIVE ParseMembers(_, _, _)
RECURSIVE ParseElements(_, _, _)

\* JSONObject of json.decoder: i is the position after "{"
ParseObject(s, i) ==
    LET j == SkipWs(s, i)
    IN  IF j <= Len(s) /\ s[j] = "}" THEN Parsed(JObj(EmptyDict), j + 1)
        ELSE ParseMembers(s, j, EmptyDict)

\* after a pair: "}" ends the object, "," brings the next pair
MembersAfterPair(s, d, acc) ==
    IF d > Len(s) THEN ParseFail
    ELSE IF s[d] = "}" THEN Parsed(JObj(acc), d + 1)
    ELSE IF s[d] = "," THEN ParseMembers(s, SkipWs(s, d + 1), acc)
    ELSE ParseFail

\* the value v of the pair whose key is key
MembersValue(s, key, v, acc) ==
    IF ~v.ok THEN ParseFail
    ELSE MembersAfterPair(s, SkipWs(s, v.pos), (key.val.s :> v.val) @@ acc)

\* the ":" expected at c, then the value
MembersColon(s, key, c, acc) ==
    IF c > Len(s) \/ s[c] # ":" THEN ParseFail
    ELSE MembersValue(s, key, ParseValue(s, SkipWs(s, c + 1)), acc)

\* the key read by ParseStringBody
MembersKey(s, key, acc) ==
    IF ~key.ok THEN ParseFail
    ELSE MembersColon(s, key, SkipWs(s, key.pos), acc)

\* one "key": value pair at i, then "," and the next pair, or "}"
ParseMembers(s, i, acc) ==
    IF i > Len(s) \/ s[i] # "\"" THEN ParseFail
    ELSE MembersKey(s, ParseStringBody(s, i + 1, <<>>), acc)

\* JSONArray of json.decoder: i is the position after "["
ParseArray(s, i) ==
    LET j == SkipWs(s, i)
    IN  IF j <= Len(s) /\ s[j] = "]" THEN Parsed(JArr(<<>>), j + 1)
        ELSE ParseElements(s, j, <<>>)

\* after an element: "]" ends the array, "," brings the next element
ElementsAfterValue(s, d, acc) ==
    IF d > Len(s) THEN ParseFail
    ELSE IF s[d] = "]" THEN Parsed(JArr(acc), d + 1)
    ELSE IF s[d] = "," THEN ParseElements(s, SkipWs(s, d + 1), acc)
    ELSE ParseFail

\* the element v read by ParseValue
ElementsValue(s, v, acc) ==
    IF ~v.ok THEN ParseFail
    ELSE ElementsAfterValue(s, SkipWs(s, v.pos), Append(acc, v.val))

ParseElements(s, i, acc) == ElementsValue(s, ParseValue(s, i), acc)

\* scan_once of json.scanner
ParseValue(s, i) ==
    IF i > Len(s) THEN ParseFail
    ELSE IF s[i] = "\"" THEN ParseStringBody(s, i + 1, <<>>)
    ELSE IF s[i] = "{" THEN ParseObject(s, i + 1)
    ELSE IF s[i] = "[" THEN ParseArray(s, i + 1)
    ELSE IF MatchAt(<<"n", "u", "l", "l">>, s, i) THEN Parsed(JNull, i + 4)
    ELSE IF MatchAt(<<"t", "r", "u", "e">>, s, i) THEN Parsed(JBool(TRUE), i + 4)
    ELSE IF MatchAt(<<"f", "a", "l", "s", "e">>, s, i) THEN Parsed(JBool(FALSE), i + 5)
    ELSE IF IsDigit(s[i]) THEN ParseNumber(s, i)
    ELSE ParseFail

\* the value v decoded at the start of s, when only white space follows it
\* (otherwise "Extra data")
WholeText(s, v) ==
    IF v.ok /\ SkipWs(s, v.pos) = Len(s) + 1 THEN v ELSE ParseFail

\* json.loads(s): ok = FALSE stands for JSONDecodeError
JsonLoads(s) == WholeText(s, ParseValue(s, SkipWs(s, 1)))

EscapeOf(c) ==
    CASE c = "\"" -> <<"\\", "\"">>
      [] c = "\\" -> <<"\\", "\\">>
      [] c = "\n" -> <<"\\", "n">>
      [] c = "\t" -> <<"\\", "t">>

RECURSIVE JsonEscape(_)
\* the string escaping of json.dumps: every quote, backslash and control
\* character is replaced by its escape
JsonEscape(s) ==
    LET special == {j \in 1..Len(s) : s[j] \in {"\"", "\\", "\n", "\t"}}
        j       == SetMin(special)
    IN  IF special = {} THEN s
        ELSE SubSeq(s, 1, j - 1) \o EscapeOf(s[j]) \o JsonEscape(SubSeq(s, j + 1, Len(s)))

\* json.dumps({"error": msg, "is_morphed": None, "morphed_regions": []})
DumpsError(msg) ==
    <<"{", "\"", "e", "r", "r", "o", "r", "\"", ":", " ", "\"">> \o JsonEscape(msg) \o <<"\"", ",", " ", "\"", "i", "s", "_", "m", "o", "r", "p", "h", "e", "d", "\"", ":", " ", "n", "u", "l", "l", ",", " ", "\"", "m", "o", "r", "p", "h", "e", "d", "_", "r", "e", "g", "i", "o", "n", "s", "\"", ":", " ", "[", "]", "}">>

\* bool(v) for a decoded JSON value v
Truthy(v) ==
    CASE v.t = "null" -> FALSE
      [] v.t = "bool" -> v.b
      [] v.t = "num" -> v.n # 0
      [] v.t = "str" -> v.s # <<>>
      [] v.t = "arr" -> v.a # <<>>
      [] v.t = "obj" -> DOMAIN v.o # {}

\* d.get(key) for a decoded JSON object d: None when the key is absent
DictGet(d, key) == IF key \in DOMAIN d.o THEN d.o[key] ELSE JNull

(***************************************************************************)
(* Texts of the program                                                    *)
(***************************************************************************)
PdfSuffix == <<".", "p", "d", "f">>

ImagesSuffix == <<"_", "i", "m", "a", "g", "e", "s">>

FenceJson == <<"<backtick>", "<backtick>", "<backtick>", "j", "s", "o", "n">>

Fence == <<"<backtick>", "<backtick>", "<backtick>">>

KeyImagePath == <<"i", "m", "a", "g", "e", "_", "p", "a", "t", "h">>

KeyIsMorphed == <<"i", "s", "_", "m", "o", "r", "p", "h", "e", "d">>

NotFoundPrefix == <<"I", "m", "a", "g", "e", " ", "f", "i", "l", "e", " ", "n", "o", "t", " ", "f", "o", "u", "n", "d", ":", " ">>

ReadFailedPrefix == <<"F", "a", "i", "l", "e", "d", " ", "t", "o", " ", "r", "e", "a", "d", " ", "i", "m", "a", "g", "e", ":", " ">>

ApiFailedPrefix == <<"A", "P", "I", " ", "c", "a", "l", "l", " ", "f", "a", "i", "l", "e", "d", ":", " ">>

PdfFailedPrefix == <<"P", "D", "F", " ", "p", "r", "o", "c", "e", "s", "s", "i", "n", "g", " ", "f", "a", "i", "l", "e", "d", ":", " ">>

JsonFailedPrefix == <<"J", "S", "O", "N", " ", "p", "a", "r", "s", "i", "n", "g", " ", "f", "a", "i", "l", "e", "d", ":", " ">>

NoJsonFound == <<"N", "o", " ", "J", "S", "O", "N", " ", "f", "o", "u", "n", "d", " ", "i", "n", " ", "o", "u", "t", "p", "u", "t">>

(***************************************************************************)
(* The environment: inputs, documents, remote responses, failures          *)
(***************************************************************************)
\* the largest number of images embedded in an input PDF
MaxImages == 2

\* the largest number of pages of an input PDF
MaxPages == 1

\* the largest number of calls of the detection tool the agent makes for one image
MaxToolCalls == 1

ImagePath == <<"a", ".", "j", "p", "g">>

InputPaths == {ImagePath, <<"d", ".", "p", "d", "f">>, <<"i", "n", "/", "D", ".", "P", "D", "F">>}

ImageExts == {<<"p", "n", "g">>}

RECURSIVE SumLen(_)
SumLen(pages) == IF pages = <<>> THEN 0 ELSE Len(Head(pages)) + SumLen(Tail(pages))

\* the pages of a PDF: for each page, the extensions of its embedded images
PageSet == UNION {[1..n -> ImageExts] : n \in 0..MaxImages}

Docs ==
    {d \in UNION {[1..n -> PageSet] : n \in 0..MaxPages} : SumLen(d) <= MaxImages}

\* a file that fitz cannot open as a PDF
NoDoc == [valid |-> FALSE, pages |-> <<>>]

\* response.content of the vision model
Responses ==
    { <<"{", "\"", "i", "s", "_", "m", "o", "r", "p", "h", "e", "d", "\"", ":", " ", "t", "r", "u", "e", "}">>,
      <<"{", "\"", "i", "s", "_", "m", "o", "r", "p", "h", "e", "d", "\"", ":", " ", "\"", "n", "o", "\"", "}">>,
      <<"H", "e", "r", "e", " ", "y", "o", "u", " ", "g", "o", ":", "\n", "<backtick>", "<backtick>", "<backtick>", "j", "s", "o", "n", "\n", "{", "\"", "i", "s", "_", "m", "o", "r", "p", "h", "e", "d", "\"", ":", " ", "f", "a", "l", "s", "e", ",", " ", "\"", "m", "o", "r", "p", "h", "e", "d", "_", "r", "e", "g", "i", "o", "n", "s", "\"", ":", " ", "[", "]", "}", "\n", "<backtick>", "<backtick>", "<backtick>">>,
      <<"{", "\"", "i", "s", "_", "m", "o", "r", "p", "h", "e", "d", "\"", ":", " ", "t", "r", "u">> }

\* a final answer the agent writes itself instead of relaying the tool's output
AgentTexts == {<<"T", "h", "e", " ", "b", "a", "n", "n", "e", "r", " ", "l", "o", "o", "k", "s", " ", "a", "u", "t", "h", "e", "n", "t", "i", "c", ".">>}

\* str(e) of the exceptions the environment raises
ReadErrorMsg == <<"[", "E", "r", "r", "n", "o", " ", "1", "3", "]", " ", "P", "e", "r", "m", "i", "s", "s", "i", "o", "n", " ", "d", "e", "n", "i", "e", "d">>

TypeErrorMsg == <<"e", "x", "p", "e", "c", "t", "e", "d", " ", "s", "t", "r", ",", " ", "b", "y", "t", "e", "s", " ", "o", "r", " ", "o", "s", ".", "P", "a", "t", "h", "L", "i", "k", "e", " ", "o", "b", "j", "e", "c", "t">>

ApiErrorMsg == <<"C", "o", "n", "n", "e", "c", "t", "i", "o", "n", " ", "e", "r", "r", "o", "r", ".">>

ClientErrorMsg == <<"M", "i", "s", "s", "i", "n", "g", " ", "c", "r", "e", "d", "e", "n", "t", "i", "a", "l", "s">>

MakedirsErrorMsg == <<"[", "E", "r", "r", "n", "o", " ", "1", "7", "]", " ", "F", "i", "l", "e", " ", "e", "x", "i", "s", "t", "s">>

OpenPdfErrorMsg == <<"F", "a", "i", "l", "e", "d", " ", "t", "o", " ", "o", "p", "e", "n", " ", "f", "i", "l", "e">>

ExtractErrorMsg == <<"b", "a", "d", " ", "x", "r", "e", "f">>

DecodeErrorMsg == <<"E", "x", "p", "e", "c", "t", "i", "n", "g", " ", "v", "a", "l", "u", "e">>

(***************************************************************************)
(* extract_images_from_pdf                                                 *)
(***************************************************************************)
OutputDir(pdf_path) == Replace(pdf_path, PdfSuffix, ImagesSuffix)

ImageName(page_num, img_index, ext) ==
    <<"p", "a", "g", "e">> \o IntToStr(page_num + 1) \o <<"_", "i", "m", "g">> \o IntToStr(img_index + 1) \o <<".">> \o ext

RECURSIVE PageImages(_, _, _, _)
\* the paths written for the images of one page, from img_index on
PageImages(output_dir, page_num, page, img_index) ==
    IF img_index >= Len(page) THEN <<>>
    ELSE <<PathJoin(output_dir, ImageName(page_num, img_index, page[img_index + 1]))>>
            \o PageImages(output_dir, page_num, page, img_index + 1)

RECURSIVE DocImages(_, _, _)
\* the paths written for the images of the pages from page_num on
DocImages(output_dir, pages, page_num) ==
    IF page_num >= Len(pages) THEN <<>>
    ELSE PageImages(output_dir, page_num, pages[page_num + 1], 0)
            \o DocImages(output_dir, pages, page_num + 1)

SeqRange(q) == {q[k] : k \in 1..Len(q)}

\* extract_images_from_pdf(pdf_path) on the file system (fs_files, fs_dirs)
\* holding the document d at pdf_path: the paths returned or the exception
\* raised, and the file system it leaves.  The environment decides whether
\* the directory can be created (makedirs_ok) and how many images are
\* extracted and written before a failure (written; all of them: no failure)
ExtractImagesFromPdf(pdf_path, fs_files, fs_dirs, d, makedirs_ok, written) ==
    LET output_dir == OutputDir(pdf_path)
        all        == DocImages(output_dir, d.pages, 0)
    IN  IF output_dir \in fs_files \/ ~makedirs_ok
        THEN [ok |-> FALSE, exc |-> MakedirsErrorMsg, paths |-> <<>>,
              files |-> fs_files, dirs |-> fs_dirs]
        ELSE IF pdf_path \notin fs_files \/ ~d.valid
        THEN [ok |-> FALSE, exc |-> OpenPdfErrorMsg, paths |-> <<>>,
              files |-> fs_files, dirs |-> fs_dirs \cup {output_dir}]
        ELSE IF written < Len(all)
        THEN [ok |-> FALSE, exc |-> ExtractErrorMsg, paths |-> <<>>,
              files |-> fs_files \cup SeqRange(SubSeq(all, 1, written)),
              dirs |-> fs_dirs \cup {output_dir}]
        ELSE [ok |-> TRUE, exc |-> <<>>, paths |-> all,
              files |-> fs_files \cup SeqRange(all),
              dirs |-> fs_dirs \cup {output_dir}]

(***************************************************************************)
(* MorphingDetectionTool._run                                              *)
(***************************************************************************)
\* lines 84-90: the path the tool opens, for the argument the agent passed
\* (a decoded JSON value when the argument was a JSON object with the key)
UnwrapParsed(arg, parsed) ==
    IF StartsWith(Strip(arg), <<"{">>)
          /\ parsed.ok
          /\ KeyImagePath \in DOMAIN parsed.val.o
    THEN parsed.val.o[KeyImagePath]
    ELSE JStr(arg)

UnwrapImagePath(arg) == UnwrapParsed(arg, JsonLoads(arg))

NoContent == <<>>

\* what the environment does to one call of the tool: whether a file that
\* exists can be read, whether the client can be built, and the remote call
ToolEnvs ==
    {[read_ok |-> FALSE, client_ok |-> FALSE, call_ok |-> FALSE, content |-> NoContent],
     [read_ok |-> TRUE, client_ok |-> FALSE, call_ok |-> FALSE, content |-> NoContent],
     [read_ok |-> TRUE, client_ok |-> TRUE, call_ok |-> FALSE, content |-> NoContent]}
    \cup [read_ok : {TRUE}, client_ok : {TRUE}, call_ok : {TRUE}, content : Responses]

\* lines 92-393 of _run, for the path image_path that lines 84-90 leave
RunOnPath(image_path, fs_files, env) ==
        IF image_path.t # "str"
        THEN [raised |-> FALSE, text |-> DumpsError(ReadFailedPrefix \o TypeErrorMsg),
              failed |-> "read", encoded |-> FALSE, called |-> FALSE]
        ELSE IF image_path.s \notin fs_files
        THEN [raised |-> FALSE, text |-> DumpsError(NotFoundPrefix \o image_path.s),
              failed |-> "not_found", encoded |-> FALSE, called |-> FALSE]
        ELSE IF ~env.read_ok
        THEN [raised |-> FALSE, text |-> DumpsError(ReadFailedPrefix \o ReadErrorMsg),
              failed |-> "read", encoded |-> FALSE, called |-> FALSE]
        ELSE IF ~env.client_ok
        THEN [raised |-> TRUE, text |-> ClientErrorMsg,
              failed |-> "client", encoded |-> TRUE, called |-> FALSE]
        ELSE IF ~env.call_ok
        THEN [raised |-> FALSE, text |-> DumpsError(ApiFailedPrefix \o ApiErrorMsg),
              failed |-> "call", encoded |-> TRUE, called |-> TRUE]
        ELSE [raised |-> FALSE, text |-> env.content,
              failed |-> "no", encoded |-> TRUE, called |-> TRUE]

\* _run(arg): the string returned or the exception raised (text), the stage
\* that failed, and whether the image was encoded and the remote call made
RunTool(arg, fs_files, env) == RunOnPath(UnwrapImagePath(arg), fs_files, env)

\* no call of _run yet
NoCall ==
    [raised |-> FALSE, text |-> <<>>, failed |-> "no", encoded |-> FALSE, called |-> FALSE]

(***************************************************************************)
(* analyze_banner: the parsing of the agent's output (lines 525-565)       *)
(***************************************************************************)
\* StripFence taking element 0 of the split instead of element 1
StripFenceIndex0(output_text) ==
    IF Contains(FenceJson, output_text)
    THEN SplitPart0(SplitPart0(output_text, FenceJson), Fence)
    ELSE IF Contains(Fence, output_text)
    THEN SplitPart0(SplitPart0(output_text, Fence), Fence)
    ELSE output_text

\* lines 530-533
StripFence(output_text) ==
    IF Contains(FenceJson, output_text)
    THEN SplitPart0(SplitPart1(output_text, FenceJson), Fence)
    ELSE IF Contains(Fence, output_text)
    THEN SplitPart0(SplitPart1(output_text, Fence), Fence)
    ELSE output_text

\* JsonSlice ending at the first "}" (find instead of rfind)
JsonSliceFirstClose(output_text) ==
    LET json_start == Find(<<"{">>, output_text) - 1
        json_end   == (Find(<<"}">>, output_text) - 1) + 1
    IN  Slice(output_text, json_start, json_end)

\* lines 537-539, for a text that contains "{"
JsonSlice(output_text) ==
    LET json_start == Find(<<"{">>, output_text) - 1
        json_end   == (RFind(<<"}">>, output_text) - 1) + 1
    IN  Slice(output_text, json_start, json_end)

\* lines 540-546 and 554-559: json.loads returned parsed_result, or raised
ResultOfJson(output, parsed_result, intermediate_steps) ==
    IF parsed_result.ok
    THEN [success |-> TRUE,
          result |-> parsed_result.val,
          reasoning_steps |-> intermediate_steps]
    ELSE [success |-> FALSE,
          error |-> JsonFailedPrefix \o DecodeErrorMsg,
          raw_output |-> output]

\* lines 536-552, for the text output_text that lines 530-533 leave
ResultOfText(output, output_text, intermediate_steps) ==
    IF Contains(<<"{">>, output_text)
    THEN ResultOfJson(output, JsonLoads(JsonSlice(output_text)), intermediate_steps)
    ELSE [success |-> FALSE,
          error |-> NoJsonFound,
          raw_output |-> output_text]

\* lines 526-565: the dictionary built from the agent's result
ParseAgentResult(output, intermediate_steps) ==
    ResultOfText(output, StripFence(output), intermediate_steps)

(***************************************************************************)
(* analyze_banner: the aggregation of a PDF's results (lines 496-504)      *)
(***************************************************************************)
\* CountsAsMorphed testing that the key is present instead of its value
CountsAsMorphedKeyPresent(r) ==
    r.success /\ KeyIsMorphed \in DOMAIN r.result.o

\* r.get("success") and r.get("result", {}).get("is_morphed")
CountsAsMorphed(r) ==
    r.success /\ Truthy(DictGet(r.result, KeyIsMorphed))

\* line 496
MorphedCount(results) ==
    Cardinality({k \in 1..Len(results) : CountsAsMorphed(results[k])})

\* PdfResult reporting a PDF without images as a failure
PdfResultEmptyFails(pdf_path, image_paths, results) ==
    [success |-> image_paths # <<>>,
     pdf_path |-> pdf_path,
     images_analyzed |-> Len(image_paths),
     morphed_images_found |-> MorphedCount(results),
     results |-> results]

\* lines 498-504
PdfResult(pdf_path, image_paths, results) ==
    [success |-> TRUE,
     pdf_path |-> pdf_path,
     images_analyzed |-> Len(image_paths),
     morphed_images_found |-> MorphedCount(results),
     results |-> results]

\* lines 506-511
PdfError(pdf_path, exc) ==
    [success |-> FALSE,
     error |-> PdfFailedPrefix \o exc,
     pdf_path |-> pdf_path]

\* line 492
WithImageFile(r, img_path) ==
    [success |-> r.success, result |-> r.result,
     reasoning_steps |-> r.reasoning_steps, image_file |-> Basename(img_path)]

\* line 477
IsPdf(path) == EndsWith(Lower(path), PdfSuffix)

(***************************************************************************)
(* The agent executor built by create_morphing_agent                       *)
(***************************************************************************)
\* line 454
max_iterations == 5

\* the Action Input the agent passes to the tool for the image at path:
\* the path, the path wrapped in a JSON object as the prompt's FORMAT shows
\* it, or that object cut short
ToolInputs(path) ==
    { path,
      <<"{", "\"", "i", "m", "a", "g", "e", "_", "p", "a", "t", "h", "\"", ":", " ", "\"">> \o JsonEscape(path) \o <<"\"", "}">>,
      <<"{", "\"", "i", "m", "a", "g", "e", "_", "p", "a", "t", "h", "\"", ":", " ", "\"">> \o JsonEscape(path) }

(***************************************************************************)
(* State                                                                   *)
(***************************************************************************)
VARIABLES
    file_path,       \* the argument of the outermost analyze_banner call
    files,           \* the paths that are files on disk
    dirs,            \* the paths that are directories on disk
    doc,             \* what fitz finds in the file at file_path
    pc,              \* where analyze_banner is
    extraction,      \* how extract_images_from_pdf ended: "no" call, "returned", "raised"
    images,          \* line 483: the extracted image paths
    idx,             \* line 488: the index of the image being analysed
    all_results,     \* line 487
    cur,             \* the path of the image whose Image branch is running
    iterations,      \* the agent's iterations so far, one intermediate step each
    tool_calls,      \* the calls of _run the agent made for cur
    last_tool,       \* how the last call of _run for cur ended
    output,          \* result["output"], the agent's final answer
    relayed,         \* the final answer is the tool's output, unmodified
    ret,             \* how the outermost analyze_banner call ended
    agents_created,  \* the agent executors built so far
    agent_calls,     \* the round-trips of the agents to their reasoning model
    vision_calls,    \* the calls of llm.invoke in _run (line 386)
    encodes,         \* the images read and base64-encoded in _run (lines 94-95)
    exit_status,     \* of the command-line process: "running", "0" or "1"
    artifact         \* the file that lines 665-672 opened, and what it holds

vars ==
    <<file_path, files, dirs, doc, pc, extraction, images, idx, all_results, cur,
      iterations, tool_calls, last_tool, output, relayed, ret, agents_created, agent_calls,
      vision_calls, encodes, exit_status, artifact>>

cli_vars == <<exit_status, artifact>>

env_vars == <<file_path, doc>>

pdf_vars == <<extraction, images, idx, all_results>>

agent_vars == <<iterations, tool_calls, last_tool>>

counters == <<agents_created, agent_calls, vision_calls, encodes>>

NotReturned == [kind |-> "running"]

Returned(value) == [kind |-> "return", value |-> value]

Raised(exc) == [kind |-> "raise", exc |-> exc]

NoText == <<>>

NoArtifact == [state |-> "none"]

Init ==
    /\ file_path \in InputPaths
    /\ files \in {{}, {file_path}}
    /\ dirs = {}
    /\ doc \in IF IsPdf(file_path) /\ files # {}
               THEN {NoDoc} \cup {[valid |-> TRUE, pages |-> d] : d \in Docs}
               ELSE {NoDoc}
    /\ pc = "start"
    /\ extraction = "no"
    /\ images = <<>>
    /\ idx = 1
    /\ all_results = <<>>
    /\ cur = NoText
    /\ iterations = 0
    /\ tool_calls = 0
    /\ last_tool = NoCall
    /\ output = NoText
    /\ relayed = FALSE
    /\ ret = NotReturned
    /\ agents_created = 0
    /\ agent_calls = 0
    /\ vision_calls = 0
    /\ encodes = 0
    /\ exit_status = "running"
    /\ artifact = NoArtifact

(***************************************************************************)
(* analyze_banner, step by step                                            *)
(***************************************************************************)
\* An exception leaves the Image branch (lines 518-523 are outside every
\* try): inside the PDF branch's loop the handler of line 506 catches it,
\* otherwise it leaves analyze_banner.
RaiseFromImageBranch(exc) ==
    /\ ret' = IF IsPdf(file_path)
              THEN Returned(PdfError(file_path, exc))
              ELSE Raised(exc)
    /\ pc' = "done"

\* lines 483-484 and 506-511: extract_images_from_pdf ended as x says
ExtractionEnds(x) ==
    /\ files' = x.files
    /\ dirs' = x.dirs
    /\ IF x.ok
       THEN /\ extraction' = "returned"
            /\ images' = x.paths
            /\ pc' = "loop"
            /\ ret' = ret
       ELSE /\ extraction' = "raised"
            /\ images' = images
            /\ pc' = "done"
            /\ ret' = Returned(PdfError(file_path, x.exc))

\* ExtractStep going on with the images written before the failure
ExtractStepKeepsPartial ==
    /\ pc = "start"
    /\ IsPdf(file_path)
    /\ \E makedirs_ok \in BOOLEAN, written \in 0..SumLen(doc.pages) :
         LET x == ExtractImagesFromPdf(file_path, files, dirs, doc, makedirs_ok, written)
         IN  /\ files' = x.files
             /\ dirs' = x.dirs
             /\ extraction' = IF x.ok THEN "returned" ELSE "raised"
             /\ images' = IF x.exc \in {MakedirsErrorMsg, OpenPdfErrorMsg}
                          THEN <<>>
                          ELSE SubSeq(DocImages(OutputDir(file_path), doc.pages, 0), 1, written)
             /\ pc' = "loop"
             /\ ret' = ret
    /\ UNCHANGED <<cli_vars, env_vars, idx, all_results, cur, agent_vars, output, relayed, counters>>

\* lines 477-484 and 506-511: the PDF branch extracts the images, or fails
ExtractStep ==
    /\ pc = "start"
    /\ IsPdf(file_path)
    /\ \E makedirs_ok \in BOOLEAN, written \in 0..SumLen(doc.pages) :
         ExtractionEnds(ExtractImagesFromPdf(file_path, files, dirs, doc, makedirs_ok, written))
    /\ UNCHANGED <<cli_vars, env_vars, idx, all_results, cur, agent_vars, output, relayed, counters>>

\* LoopNext taking the images from the last to the first
LoopNextBackwards ==
    /\ pc = "loop"
    /\ idx <= Len(images)
    /\ cur' = images[Len(images) + 1 - idx]
    /\ pc' = "create"
    /\ UNCHANGED <<cli_vars, env_vars, files, dirs, pdf_vars, agent_vars, output, relayed, ret, counters>>

\* lines 488-490: the loop calls analyze_banner on the next image
LoopNext ==
    /\ pc = "loop"
    /\ idx <= Len(images)
    /\ cur' = images[idx]
    /\ pc' = "create"
    /\ UNCHANGED <<cli_vars, env_vars, files, dirs, pdf_vars, agent_vars, output, relayed, ret, counters>>

\* lines 496-504: the loop is over, the PDF branch returns the aggregate
Aggregate ==
    /\ pc = "loop"
    /\ idx > Len(images)
    /\ ret' = Returned(PdfResult(file_path, images, all_results))
    /\ pc' = "done"
    /\ UNCHANGED <<cli_vars, env_vars, files, dirs, pdf_vars, cur, agent_vars, output, relayed, counters>>

\* lines 477 and 514: a path that is no PDF goes to the Image branch
StartImage ==
    /\ pc = "start"
    /\ ~IsPdf(file_path)
    /\ cur' = file_path
    /\ pc' = "create"
    /\ UNCHANGED <<cli_vars, env_vars, files, dirs, pdf_vars, agent_vars, output, relayed, ret, counters>>

\* line 518: create_morphing_agent() builds the executor, or the
\* construction of its client raises
CreateAgent ==
    /\ pc = "create"
    /\ \E ok \in BOOLEAN :
         IF ok
         THEN /\ agents_created' = agents_created + 1
              /\ iterations' = 0
              /\ tool_calls' = 0
              /\ last_tool' = NoCall
              /\ relayed' = FALSE
              /\ pc' = "agent"
              /\ ret' = ret
         ELSE /\ RaiseFromImageBranch(ClientErrorMsg)
              /\ UNCHANGED <<agents_created, agent_vars, relayed>>
    /\ UNCHANGED <<cli_vars, env_vars, files, dirs, pdf_vars, cur, output, agent_calls,
                   vision_calls, encodes>>

\* ToolCallEnds for a tool that repeats a remote call once
ToolCallEndsRetrying(r) ==
    /\ encodes' = encodes + (IF r.encoded THEN 1 ELSE 0)
    /\ vision_calls' = vision_calls + (IF r.called THEN 2 ELSE 0)
    /\ last_tool' = r
    /\ tool_calls' = tool_calls + 1
    /\ IF r.raised
       THEN /\ RaiseFromImageBranch(r.text)
            /\ UNCHANGED iterations
       ELSE /\ iterations' = iterations + 1
            /\ UNCHANGED <<pc, ret>>

\* the call of _run ended as r says: its string is an intermediate step, its
\* exception leaves agent_executor.invoke
ToolCallEnds(r) ==
    /\ encodes' = encodes + (IF r.encoded THEN 1 ELSE 0)
    /\ vision_calls' = vision_calls + (IF r.called THEN 1 ELSE 0)
    /\ last_tool' = r
    /\ tool_calls' = tool_calls + 1
    /\ IF r.raised
       THEN /\ RaiseFromImageBranch(r.text)
            /\ UNCHANGED iterations
       ELSE /\ iterations' = iterations + 1
            /\ UNCHANGED <<pc, ret>>

\* line 521, one iteration of the executor: the agent calls the tool, which
\* returns a string (an intermediate step) or raises (the executor re-raises).
\* The agent has called the tool fewer than cap times for this image, and
\* the environment of the call is one of envs.
ToolCallStep(cap, envs) ==
    /\ pc = "agent"
    /\ iterations < max_iterations
    /\ tool_calls < cap
    /\ \E arg \in ToolInputs(cur), env \in envs :
         ToolCallEnds(RunTool(arg, files, env))
    /\ agent_calls' = agent_calls + 1
    /\ UNCHANGED <<cli_vars, env_vars, files, dirs, pdf_vars, cur, output, relayed, agents_created>>

AgentToolCall == ToolCallStep(MaxToolCalls, ToolEnvs)

\* line 521: the round-trip to the agent's reasoning model fails and
\* agent_executor.invoke raises
AgentCallFails ==
    /\ pc = "agent"
    /\ iterations < max_iterations
    /\ agent_calls' = agent_calls + 1
    /\ RaiseFromImageBranch(ApiErrorMsg)
    /\ UNCHANGED <<cli_vars, env_vars, files, dirs, pdf_vars, cur, agent_vars, output, relayed,
                   agents_created, vision_calls, encodes>>

\* line 521: the agent gives its final answer, the tool's last output
\* unmodified (prompt, line 429) or a text of its own
AgentFinish ==
    /\ pc = "agent"
    /\ iterations < max_iterations
    /\ \E relay \in BOOLEAN, text \in AgentTexts :
         /\ relay => tool_calls > 0
         /\ output' = IF relay THEN last_tool.text ELSE text
         /\ relayed' = relay
    /\ agent_calls' = agent_calls + 1
    /\ pc' = "parse"
    /\ UNCHANGED <<cli_vars, env_vars, files, dirs, pdf_vars, cur, agent_vars, ret,
                   agents_created, vision_calls, encodes>>

\* the Image branch returns r: to the loop of the PDF branch (lines 490-493),
\* where the locals of the recursive call are gone, or to the caller of
\* analyze_banner
ImageBranchReturns(r) ==
    IF IsPdf(file_path)
    THEN /\ all_results' =
              Append(all_results, IF r.success THEN WithImageFile(r, cur) ELSE r)
         /\ idx' = idx + 1
         /\ pc' = "loop"
         /\ ret' = ret
         /\ cur' = NoText
         /\ iterations' = 0
         /\ tool_calls' = 0
         /\ last_tool' = NoCall
         /\ output' = NoText
         /\ relayed' = FALSE
    ELSE /\ ret' = Returned(r)
         /\ pc' = "done"
         /\ UNCHANGED <<all_results, idx, cur, agent_vars, output, relayed>>

\* lines 525-565, and 491-493 when the call is the PDF branch's: the output
\* is parsed and the Image branch returns
ParseStep ==
    /\ pc = "parse"
    /\ ImageBranchReturns(ParseAgentResult(output, iterations))
    /\ UNCHANGED <<cli_vars, env_vars, files, dirs, extraction, images, counters>>

Next ==
    \/ ExtractStep
    \/ LoopNext
    \/ Aggregate
    \/ StartImage
    \/ CreateAgent
    \/ AgentToolCall
    \/ AgentCallFails
    \/ AgentFinish
    \/ ParseStep

Spec == Init /\ [][Next]_vars

(***************************************************************************)
(* The command-line wrapper (lines 630-682) and print_results (568-622)    *)
(***************************************************************************)
KeyMorphedRegions == <<"m", "o", "r", "p", "h", "e", "d", "_", "r", "e", "g", "i", "o", "n", "s">>

KeyConfidenceScore == <<"c", "o", "n", "f", "i", "d", "e", "n", "c", "e", "_", "s", "c", "o", "r", "e">>

KeySeverity == <<"s", "e", "v", "e", "r", "i", "t", "y">>

Unknown == JStr(<<"u", "n", "k", "n", "o", "w", "n">>)

\* d.get(key, default) for a decoded JSON object d
DictGetDefault(d, key, default) == IF key \in DOMAIN d.o THEN d.o[key] ELSE default

\* len(v) raises TypeError for None, a boolean and a number
LenRaises(v) == v.t \in {"null", "bool", "num"}

\* v.upper() raises AttributeError for everything but a string
UpperRaises(v) == v.t # "str"

\* lines 615-619 raise for region: region.get on a value that is no
\* dictionary, or .upper() on a severity that is no string
RegionRaises(region) ==
    \/ region.t # "obj"
    \/ UpperRaises(DictGetDefault(region, KeySeverity, Unknown))

\* lines 614-619 raise for the value v of morphed_regions, on which len()
\* works: the loop runs over the elements of a list, the characters of a
\* string, the keys of a dictionary
RegionsRaise(v) ==
    CASE v.t = "arr" -> \E k \in 1..Len(v.a) : RegionRaises(v.a[k])
      [] v.t = "str" -> v.s # <<>>
      [] v.t = "obj" -> DOMAIN v.o # {}

\* lines 605-619 raise for the result of one image
PrintImageRaises(result) ==
    /\ Truthy(DictGet(result, KeyIsMorphed))
    /\ \/ UpperRaises(DictGetDefault(result, KeyConfidenceScore, Unknown))
       \/ LenRaises(DictGetDefault(result, KeyMorphedRegions, JArr(<<>>)))
       \/ RegionsRaise(DictGetDefault(result, KeyMorphedRegions, JArr(<<>>)))

\* lines 589-593 raise for one entry of a PDF's results
PrintEntryRaises(img_result) ==
    /\ img_result.success
    /\ Truthy(img_result.result)
    /\ Truthy(DictGet(img_result.result, KeyIsMorphed))
    /\ LenRaises(DictGetDefault(img_result.result, KeyMorphedRegions, JArr(<<>>)))

\* lines 568-622: print_results(analysis_result) raises
PrintResultsRaises(analysis_result) ==
    /\ analysis_result.success
    /\ IF "pdf_path" \in DOMAIN analysis_result
       THEN \E k \in 1..Len(analysis_result.results) :
                PrintEntryRaises(analysis_result.results[k])
       ELSE PrintImageRaises(analysis_result.result)

\* line 663
OutputFile(banner_path) == Replace(banner_path, <<".">>, <<"_", "a", "n", "a", "l", "y", "s", "i", "s", ".">>) \o <<".", "j", "s", "o", "n">>

\* os.path.dirname(path)
Dirname(path) == SubSeq(path, 1, RFind(<<"/">>, path) - 1)

\* the directory d exists: the working directory, a directory made, or the
\* directory of something that exists
DirExists(d, fs_files, fs_dirs) ==
    \/ d = <<>>
    \/ d \in fs_dirs
    \/ \E f \in fs_files \cup fs_dirs : Dirname(f) = d

\* line 665: open(output_file, "w") raises
OpenRaises(output_file, fs_files, fs_dirs) ==
    \/ output_file \in fs_dirs
    \/ ~DirExists(Dirname(output_file), fs_files, fs_dirs)

\* lines 667-672: what is handed to json.dump
Payload(analysis_result) ==
    IF "pdf_path" \in DOMAIN analysis_result
    THEN analysis_result
    ELSE analysis_result.result

\* lines 669 and 672: json.dump raises TypeError.  A decoded JSON value can
\* be encoded; the reasoning_steps of an entry (line 545) are the executor's
\* intermediate steps, pairs of an AgentAction object and the tool's string
\* (line 455), and the encoder has no encoding for such an object
DumpRaises(analysis_result) ==
    /\ "pdf_path" \in DOMAIN analysis_result
    /\ \E k \in 1..Len(analysis_result.results) :
          /\ analysis_result.results[k].success
          /\ analysis_result.results[k].reasoning_steps > 0

\* the process ends with status, leaving the file system as it is
CliExits(status) ==
    /\ exit_status' = status
    /\ pc' = "exited"
    /\ UNCHANGED <<files, artifact>>

\* lines 665-673: the file is opened and the payload is written to it, as
\* far as json.dump gets
CliSaves(analysis_result, output_file) ==
    /\ files' = files \cup {output_file}
    /\ pc' = "exited"
    /\ IF DumpRaises(analysis_result)
       THEN /\ artifact' = [state |-> "partial", path |-> output_file]
            /\ exit_status' = "1"
       ELSE /\ artifact' = [state |-> "written", path |-> output_file,
                            content |-> Payload(analysis_result)]
            /\ exit_status' = "0"

\* lines 660-673 and 678-682, for the value analyze_banner returned
CliHandles(analysis_result, output_file) ==
    IF PrintResultsRaises(analysis_result)
    THEN CliExits("1")
    ELSE IF ~analysis_result.success
    THEN CliExits("0")
    ELSE IF OpenRaises(output_file, files, dirs)
    THEN CliExits("1")
    ELSE CliSaves(analysis_result, output_file)

\* lines 644-656: the checks before the analysis.  The environment decides
\* whether the credentials are configured
CliStart ==
    /\ pc = "cli"
    /\ \E credentials \in BOOLEAN :
         IF credentials /\ file_path \in files \cup dirs
         THEN /\ pc' = "start"
              /\ exit_status' = exit_status
         ELSE /\ pc' = "exited"
              /\ exit_status' = "1"
    /\ UNCHANGED <<env_vars, files, dirs, pdf_vars, cur, agent_vars, output, relayed, ret,
                   counters, artifact>>

\* lines 658-682: analyze_banner has returned or raised; the result is
\* printed and saved, and the process ends.  (The handler of
\* KeyboardInterrupt, lines 675-677, needs a signal from outside and is
\* left out.)
CliFinish ==
    /\ pc = "done"
    /\ IF ret.kind = "raise"
       THEN CliExits("1")
       ELSE CliHandles(ret.value, OutputFile(file_path))
    /\ UNCHANGED <<env_vars, dirs, pdf_vars, cur, agent_vars, output, relayed, ret, counters>>

\* the paths given on the command line
CliPaths == {ImagePath, <<".", "/", "a", ".", "j", "p", "g">>, <<"d", ".", "p", "d", "f">>}

\* response.content of the vision model, in the runs of the wrapper
CliResponses ==
    { <<"{", "\"", "i", "s", "_", "m", "o", "r", "p", "h", "e", "d", "\"", ":", " ", "f", "a", "l", "s", "e", ",", " ", "\"", "m", "o", "r", "p", "h", "e", "d", "_", "r", "e", "g", "i", "o", "n", "s", "\"", ":", " ", "[", "]", "}">>,
      <<"{", "\"", "i", "s", "_", "m", "o", "r", "p", "h", "e", "d", "\"", ":", " ", "t", "r", "u", "e", ",", " ", "\"", "c", "o", "n", "f", "i", "d", "e", "n", "c", "e", "_", "s", "c", "o", "r", "e", "\"", ":", " ", "\"", "h", "i", "g", "h", "\"", ",", " ", "\"", "m", "o", "r", "p", "h", "e", "d", "_", "r", "e", "g", "i", "o", "n", "s", "\"", ":", " ", "[", "{", "\"", "s", "e", "v", "e", "r", "i", "t", "y", "\"", ":", " ", "\"", "C", "R", "I", "T", "I", "C", "A", "L", "\"", "}", "]", "}">>,
      <<"{", "\"", "i", "s", "_", "m", "o", "r", "p", "h", "e", "d", "\"", ":", " ", "t", "r", "u", "e", ",", " ", "\"", "c", "o", "n", "f", "i", "d", "e", "n", "c", "e", "_", "s", "c", "o", "r", "e", "\"", ":", " ", "9", "0", "}">> }

CliEnvs ==
    {[read_ok |-> FALSE, client_ok |-> FALSE, call_ok |-> FALSE, content |-> NoContent]}
    \cup [read_ok : {TRUE}, client_ok : {TRUE}, call_ok : {TRUE}, content : CliResponses]

CliToolCall == ToolCallStep(MaxToolCalls, CliEnvs)

\* the process has started with a path on its command line
CliInit ==
    /\ file_path \in CliPaths
    /\ files \in {{}, {file_path}}
    /\ dirs = {}
    /\ doc \in IF IsPdf(file_path) /\ files # {}
               THEN {NoDoc} \cup {[valid |-> TRUE, pages |-> d] : d \in Docs}
               ELSE {NoDoc}
    /\ pc = "cli"
    /\ extraction = "no"
    /\ images = <<>>
    /\ idx = 1
    /\ all_results = <<>>
    /\ cur = NoText
    /\ iterations = 0
    /\ tool_calls = 0
    /\ last_tool = NoCall
    /\ output = NoText
    /\ relayed = FALSE
    /\ ret = NotReturned
    /\ agents_created = 0
    /\ agent_calls = 0
    /\ vision_calls = 0
    /\ encodes = 0
    /\ exit_status = "running"
    /\ artifact = NoArtifact

CliNext ==
    \/ CliStart
    \/ ExtractStep
    \/ LoopNext
    \/ Aggregate
    \/ StartImage
    \/ CreateAgent
    \/ CliToolCall
    \/ AgentCallFails
    \/ AgentFinish
    \/ ParseStep
    \/ CliFinish

CliSpec == CliInit /\ [][CliNext]_vars

(***************************************************************************)
(* The agent executor on its own, up to its limit of iterations            *)
(* (lines 451-457): Spec lets the agent call the tool MaxToolCalls times   *)
(* for one image, here only max_iterations bounds it                       *)
(***************************************************************************)
\* the final answer of an executor that ran out of iterations
StoppedText == <<"A", "g", "e", "n", "t", " ", "s", "t", "o", "p", "p", "e", "d", " ", "d", "u", "e", " ", "t", "o", " ", "i", "t", "e", "r", "a", "t", "i", "o", "n", " ", "l", "i", "m", "i", "t", " ", "o", "r", " ", "t", "i", "m", "e", " ", "l", "i", "m", "i", "t", ".">>

\* lines 456 and 521: the reply of the reasoning model is no action the
\* executor can read; handle_parsing_errors makes that an intermediate step
\* without a tool call
AgentParseError ==
    /\ pc = "agent"
    /\ iterations < max_iterations
    /\ iterations' = iterations + 1
    /\ agent_calls' = agent_calls + 1
    /\ UNCHANGED <<cli_vars, env_vars, files, dirs, pdf_vars, cur, tool_calls, last_tool, output,
                   relayed, ret, pc, agents_created, vision_calls, encodes>>

\* lines 454 and 521: after max_iterations steps the executor stops and
\* agent_executor.invoke returns its fixed answer
AgentStops ==
    /\ pc = "agent"
    /\ iterations = max_iterations
    /\ output' = StoppedText
    /\ relayed' = FALSE
    /\ pc' = "parse"
    /\ UNCHANGED <<cli_vars, env_vars, files, dirs, pdf_vars, cur, agent_vars, ret, counters>>

AgentAnyToolCall == ToolCallStep(max_iterations, ToolEnvs)

\* the PDFs of the runs of the agent: one page with one image or two
AgentDocs == {<<<<ext>>>> : ext \in ImageExts} \cup {<<<<ext, ext>>>> : ext \in ImageExts}

\* analyze_banner is called on an image, or on a PDF that holds images
AgentInit ==
    /\ file_path \in {ImagePath, <<"d", ".", "p", "d", "f">>}
    /\ files \in {{}, {file_path}}
    /\ dirs = {}
    /\ doc \in IF IsPdf(file_path) /\ files # {}
               THEN {[valid |-> TRUE, pages |-> d] : d \in AgentDocs}
               ELSE {NoDoc}
    /\ pc = "start"
    /\ extraction = "no"
    /\ images = <<>>
    /\ idx = 1
    /\ all_results = <<>>
    /\ cur = NoText
    /\ iterations = 0
    /\ tool_calls = 0
    /\ last_tool = NoCall
    /\ output = NoText
    /\ relayed = FALSE
    /\ ret = NotReturned
    /\ agents_created = 0
    /\ agent_calls = 0
    /\ vision_calls = 0
    /\ encodes = 0
    /\ exit_status = "running"
    /\ artifact = NoArtifact

AgentNext ==
    \/ ExtractStep
    \/ LoopNext
    \/ Aggregate
    \/ StartImage
    \/ CreateAgent
    \/ AgentAnyToolCall
    \/ AgentParseError
    \/ AgentCallFails
    \/ AgentFinish
    \/ AgentStops
    \/ ParseStep

AgentSpec == AgentInit /\ [][AgentNext]_vars

(***************************************************************************)
(* The PDF branch on documents of several pages                            *)
(***************************************************************************)
BatchMaxPages == 2

BatchMaxImages == 2

\* the pages of a PDF: for each page, the extensions of its embedded images
BatchDocs ==
    {d \in UNION {[1..n -> UNION {[1..i -> ImageExts] : i \in 0..BatchMaxImages}] :
                     n \in 0..BatchMaxPages} :
        SumLen(d) <= BatchMaxImages}

\* what the environment does to one call of the tool in these runs
BatchEnvs ==
    {[read_ok |-> FALSE, client_ok |-> FALSE, call_ok |-> FALSE, content |-> NoContent],
     [read_ok |-> TRUE, client_ok |-> FALSE, call_ok |-> FALSE, content |-> NoContent],
     [read_ok |-> TRUE, client_ok |-> TRUE, call_ok |-> TRUE,
      content |-> <<"{", "\"", "i", "s", "_", "m", "o", "r", "p", "h", "e", "d", "\"", ":", " ", "t", "r", "u", "e", "}">>]}

BatchToolCall == ToolCallStep(MaxToolCalls, BatchEnvs)

\* analyze_banner is called on a PDF that exists
BatchInit ==
    /\ file_path = <<"d", ".", "p", "d", "f">>
    /\ files = {file_path}
    /\ dirs = {}
    /\ doc \in {[valid |-> TRUE, pages |-> d] : d \in BatchDocs}
    /\ pc = "start"
    /\ extraction = "no"
    /\ images = <<>>
    /\ idx = 1
    /\ all_results = <<>>
    /\ cur = NoText
    /\ iterations = 0
    /\ tool_calls = 0
    /\ last_tool = NoCall
    /\ output = NoText
    /\ relayed = FALSE
    /\ ret = NotReturned
    /\ agents_created = 0
    /\ agent_calls = 0
    /\ vision_calls = 0
    /\ encodes = 0
    /\ exit_status = "running"
    /\ artifact = NoArtifact

BatchNext ==
    \/ ExtractStep
    \/ LoopNext
    \/ Aggregate
    \/ CreateAgent
    \/ BatchToolCall
    \/ AgentCallFails
    \/ AgentFinish
    \/ ParseStep

BatchSpec == BatchInit /\ [][BatchNext]_vars

(***************************************************************************)
(* The parsing step alone, on the final answers an agent can give          *)
(***************************************************************************)
\* texts of JSON objects
JsonTexts ==
    { <<"{", "\"", "i", "s", "_", "m", "o", "r", "p", "h", "e", "d", "\"", ":", " ", "f", "a", "l", "s", "e", ",", " ", "\"", "m", "o", "r", "p", "h", "e", "d", "_", "r", "e", "g", "i", "o", "n", "s", "\"", ":", " ", "[", "]", "}">>,
      <<"{", "}">>,
      <<"{", "\"", "a", "\"", ":", " ", "{", "\"", "b", "\"", ":", " ", "1", "}", "}">>,
      <<"{", "\"", "r", "\"", ":", " ", "\"", "a", "}", "b", "{", "c", "\"", "}">>,
      <<"{", "\"", "r", "\"", ":", " ", "\"", "x", "<backtick>", "<backtick>", "<backtick>", "{", "}", "<backtick>", "<backtick>", "<backtick>", "y", "\"", "}">>,
      <<"{", "\"", "r", "\"", ":", " ", "\"", "<backtick>", "<backtick>", "<backtick>", "\"", "}">> }

\* prose before the object
ProseBefore ==
    { <<>>,
      <<"H", "e", "r", "e", " ", "y", "o", "u", " ", "g", "o", ":", "\n">>,
      <<"T", "h", "e", " ", "<backtick>", "J", "S", "O", "N", "<backtick>", ":", " ">>,
      <<"s", "e", "e", " ", "{", "x", "}", " ">>,
      <<"u", "s", "e", " ", "<backtick>", "<backtick>", "<backtick>", "x", "<backtick>", "<backtick>", "<backtick>", " ">>,
      <<"n", "o", "t", "e", " ", "<backtick>", "<backtick>", "<backtick>", " ">> }

\* prose after the object
ProseAfter ==
    { <<>>,
      <<" ", "D", "o", "n", "e", ".">>,
      <<" ", "}">>,
      <<" ", "<backtick>", "<backtick>", "<backtick>", "e", "n", "d", "<backtick>", "<backtick>", "<backtick>", " ">> }

\* J inside a json fence
FencedJson(J) == FenceJson \o <<"\n">> \o J \o <<"\n">> \o Fence

\* J inside a fence without a language
FencedPlain(J) == Fence \o <<"\n">> \o J \o <<"\n">> \o Fence

Wrappings(J) == {J, FencedJson(J), FencedPlain(J)}

\* answers without any brace
NoJsonTexts ==
    { <<"n", "o", "n", "e">>,
      <<"<backtick>", "<backtick>", "<backtick>", "j", "s", "o", "n", "\n", "n", "o", "n", "e", "\n", "<backtick>", "<backtick>", "<backtick>">>,
      <<"a", " ", "<backtick>", "<backtick>", "<backtick>", "b", "<backtick>", "<backtick>", "<backtick>", " ", "c">>,
      <<"a", " ", "<backtick>", "<backtick>", "<backtick>", " ", "b">> }

ParserInputs ==
    {pre \o w \o post :
        pre \in ProseBefore, w \in UNION {Wrappings(J) : J \in JsonTexts}, post \in ProseAfter}
    \cup NoJsonTexts

\* agent_executor.invoke has returned for the image at ImagePath: the agent
\* gave an answer of its own without calling the tool
ParserInit ==
    /\ file_path = ImagePath
    /\ files = {ImagePath}
    /\ dirs = {}
    /\ doc = NoDoc
    /\ pc = "parse"
    /\ extraction = "no"
    /\ images = <<>>
    /\ idx = 1
    /\ all_results = <<>>
    /\ cur = ImagePath
    /\ iterations = 0
    /\ tool_calls = 0
    /\ last_tool = NoCall
    /\ output \in ParserInputs
    /\ relayed = FALSE
    /\ ret = NotReturned
    /\ agents_created = 1
    /\ agent_calls = 1
    /\ vision_calls = 0
    /\ encodes = 0
    /\ exit_status = "running"
    /\ artifact = NoArtifact

ParserSpec == ParserInit /\ [][ParseStep]_vars

(***************************************************************************)
(* Properties                                                              *)
(***************************************************************************)
Done == pc = "done"

KeyError == <<"e", "r", "r", "o", "r">>

CountersZero ==
    agents_created = 0 /\ agent_calls = 0 /\ vision_calls = 0 /\ encodes = 0

\* C1: for an image path that does not exist, when the tool reports the
\* missing file and the agent relays that report as its final answer,
\* analyze_banner returns success = false, an error message containing the
\* path, and no result key.
C1_MissingImageFails ==
    (/\ Done
     /\ ~IsPdf(file_path)
     /\ file_path \notin files
     /\ last_tool.failed = "not_found"
     /\ relayed)
    => /\ ret.kind = "return"
       /\ ~ret.value.success
       /\ "result" \notin DOMAIN ret.value
       /\ Contains(file_path, ret.value.error)

\* the entries of a PDF result that the original reading of C2 counts
BooleanTrueEntries(entries) ==
    {k \in 1..Len(entries) :
        /\ entries[k].success
        /\ DictGet(entries[k].result, KeyIsMorphed) = JBool(TRUE)}

\* a decoded value that Python takes as true in a condition
TruthyValue(v) ==
    \/ v = JBool(TRUE)
    \/ v.t = "num" /\ v.n # 0
    \/ v.t = "str" /\ Len(v.s) > 0
    \/ v.t = "arr" /\ Len(v.a) > 0
    \/ v.t = "obj" /\ DOMAIN v.o # {}

TruthyEntries(entries) ==
    {k \in 1..Len(entries) :
        /\ entries[k].success
        /\ TruthyValue(DictGet(entries[k].result, KeyIsMorphed))}

PdfSucceeded ==
    Done /\ IsPdf(file_path) /\ ret.kind = "return" /\ ret.value.success

\* C2 as stated: morphed_images_found is the number of entries with
\* success = true and is_morphed the boolean true; no other entry counts.
C2_CountsOnlyBooleanTrue ==
    PdfSucceeded =>
        ret.value.morphed_images_found = Cardinality(BooleanTrueEntries(ret.value.results))

\* C2 as amended: morphed_images_found is the number of entries with
\* success = true and an is_morphed that Python takes as true (true, a
\* non-zero number, a non-empty string, list or object); an entry with
\* success = false or with is_morphed null, false or absent never counts.
C2_CountsTruthy ==
    PdfSucceeded =>
        /\ ret.value.morphed_images_found = Cardinality(TruthyEntries(ret.value.results))
        /\ ret.value.morphed_images_found <=
             Cardinality({k \in 1..Len(ret.value.results) :
                            /\ ret.value.results[k].success
                            /\ DictGet(ret.value.results[k].result, KeyIsMorphed)
                                  \notin {JNull, JBool(FALSE)}})

\* a PDF result that counts a non-boolean is_morphed next to an entry whose
\* analysis failed and an entry it does not count
C2_Witness ==
    /\ PdfSucceeded
    /\ Len(ret.value.results) = 2
    /\ ret.value.morphed_images_found = 1
    /\ \E k \in 1..2 :
         /\ ret.value.results[k].success
         /\ DictGet(ret.value.results[k].result, KeyIsMorphed).t = "str"
    /\ \E k \in 1..2 : ~ret.value.results[k].success

\* C3: once the images are extracted, the failure of one image's analysis
\* never aborts the batch: the PDF branch returns success = true with one
\* entry per extracted image and images_analyzed equal to their number.
C3_BatchNeverAborted ==
    (Done /\ extraction = "returned")
    => /\ ret.kind = "return"
       /\ ret.value.success
       /\ ret.value.images_analyzed = Len(images)
       /\ Len(ret.value.results) = Len(images)

\* C4: analyze_banner called on an image path never raises: every failure
\* is returned as a result with success = false and an error string.
C4_ImageNeverRaises ==
    (Done /\ ~IsPdf(file_path))
    => /\ ret.kind = "return"
       /\ ~ret.value.success => "error" \in DOMAIN ret.value

\* C5: for an answer without any brace, analyze_banner returns success =
\* false, the error "No JSON found in output" and raw_output equal to the
\* answer exactly as received.
C5_NoBraceKeepsRawOutput ==
    (Done /\ ~Contains(<<"{">>, output))
    => ret = Returned([success |-> FALSE, error |-> NoJsonFound, raw_output |-> output])

\* the same outcome of the parsing step: both fail, or both extract the same object
SameObject(a, b) ==
    /\ a.success = b.success
    /\ a.success => a.result = b.result

\* C6 as stated: for every JSON object text J, the answer J in a json fence
\* gives the object that J without a fence gives, and stripping the fence
\* twice gives the text that stripping it once gives.
C6_FenceTransparent ==
    /\ \A J \in JsonTexts :
         (Done /\ output = FencedJson(J))
         => SameObject(ret.value, ParseAgentResult(J, iterations))
    /\ StripFence(StripFence(output)) = StripFence(output)

\* C6 as amended: for every JSON object text J that holds no run of three
\* backquotes, the answer J in a json fence is parsed with success to the
\* object that J without a fence is parsed to; and for every answer,
\* stripping the fence twice gives the text that stripping it once gives.
C6_FenceTransparentNoBackquotes ==
    /\ \A J \in JsonTexts :
         (Done /\ output = FencedJson(J) /\ ~Contains(Fence, J))
         => /\ ret.kind = "return"
            /\ ret.value.success
            /\ ParseAgentResult(J, iterations).success
            /\ ret.value.result = ParseAgentResult(J, iterations).result
            /\ ret.value.result = JsonLoads(J).val
    /\ StripFence(StripFence(output)) = StripFence(output)

\* a fenced object with a nested object has been parsed
C6_Witness ==
    /\ Done
    /\ output = FencedJson(<<"{", "\"", "a", "\"", ":", " ", "{", "\"", "b", "\"", ":", " ", "1", "}", "}">>)
    /\ ret.value.success
    /\ StripFence(output) # output

\* the answers made of an object of JsonTexts with prose around it
ProseCases ==
    {c \in [pre : ProseBefore, json : JsonTexts, post : ProseAfter] :
        c.pre # <<>> \/ c.post # <<>>}

NoBrace(text) == ~Contains(<<"{">>, text) /\ ~Contains(<<"}">>, text)

\* C7 as stated: for an answer that is a JSON object with prose before or
\* after it, whatever the prose holds, the result has success = true and
\* is the object delimited by the first "{" and the last "}" of the answer.
C7_ProseIgnored ==
    \A c \in ProseCases :
        (Done /\ output = c.pre \o c.json \o c.post)
        => /\ ret.value.success
           /\ JsonLoads(JsonSlice(output)).ok
           /\ ret.value.result = JsonLoads(JsonSlice(output)).val

\* C7 as amended: for an answer that is a JSON object with prose before or
\* after it, where the answer holds no run of three backquotes and the
\* prose holds no brace, the result has success = true and is the object
\* delimited by the first "{" and the last "}" of the answer.
C7_ProseIgnoredNoFenceNoBrace ==
    \A c \in ProseCases :
        (/\ Done
         /\ output = c.pre \o c.json \o c.post
         /\ ~Contains(Fence, output)
         /\ NoBrace(c.pre)
         /\ NoBrace(c.post))
        => /\ ret.kind = "return"
           /\ ret.value.success
           /\ JsonSlice(output) = c.json
           /\ ret.value.result = JsonLoads(c.json).val

\* an object whose string holds braces, with prose on both sides, has been parsed
C7_Witness ==
    /\ Done
    /\ output = <<"T", "h", "e", " ", "<backtick>", "J", "S", "O", "N", "<backtick>", ":", " ">> \o <<"{", "\"", "r", "\"", ":", " ", "\"", "a", "}", "b", "{", "c", "\"", "}">> \o <<" ", "D", "o", "n", "e", ".">>
    /\ ret.value.success
    /\ ret.value.result = JObj(<<"r">> :> JStr(<<"a", "}", "b", "{", "c">>))

\* C8: for a PDF from which the extractor returns no image, analyze_banner
\* returns success = true, images_analyzed = 0, morphed_images_found = 0
\* and results = [], and no agent is created and no remote call is made.
C8_EmptyPdf ==
    (extraction = "returned" /\ images = <<>>)
    => /\ CountersZero
       /\ pc \in {"loop", "done"}
       /\ Done => ret = Returned([success |-> TRUE,
                                  pdf_path |-> file_path,
                                  images_analyzed |-> 0,
                                  morphed_images_found |-> 0,
                                  results |-> <<>>])

\* a PDF with pages but no image has been processed
C8_Witness ==
    /\ Done
    /\ extraction = "returned"
    /\ images = <<>>
    /\ Len(doc.pages) > 0
    /\ ret.kind = "return"

\* C9: when extract_images_from_pdf fails, at any point, the PDF branch
\* returns success = false, an error string and the pdf_path, without
\* results, and no image is analysed: no agent, no remote call.
C9_ExtractionFailure ==
    extraction = "raised"
    => /\ Done
       /\ ret.kind = "return"
       /\ DOMAIN ret.value = {"success", "error", "pdf_path"}
       /\ ~ret.value.success
       /\ StartsWith(ret.value.error, PdfFailedPrefix)
       /\ Len(ret.value.error) > Len(PdfFailedPrefix)
       /\ ret.value.pdf_path = file_path
       /\ CountersZero
       /\ cur = NoText
       /\ all_results = <<>>

\* the extraction has failed after it wrote an image
C9_Witness ==
    /\ Done
    /\ extraction = "raised"
    /\ files # {file_path}
    /\ Cardinality(files) = 2
    /\ ~ret.value.success

\* C10: _run never raises: a missing file, another read failure and a
\* failure of the remote call or of the construction of its client each
\* give a returned JSON object with an error message, is_morphed = null
\* and morphed_regions = [], and the missing-file message differs from the
\* read-failure message.
C10_RunNeverRaises ==
    /\ ~last_tool.raised
    /\ last_tool.failed # "no"
       => LET p == JsonLoads(last_tool.text)
          IN  /\ p.ok
              /\ p.val.t = "obj"
              /\ DOMAIN p.val.o = {KeyError, KeyIsMorphed, KeyMorphedRegions}
              /\ p.val.o[KeyError].t = "str"
              /\ p.val.o[KeyIsMorphed] = JNull
              /\ p.val.o[KeyMorphedRegions] = JArr(<<>>)
              /\ last_tool.failed = "not_found"
                 <=> StartsWith(p.val.o[KeyError].s, NotFoundPrefix)
              /\ last_tool.failed = "read"
                 <=> StartsWith(p.val.o[KeyError].s, ReadFailedPrefix)

\* the command-line process has ended after analyze_banner returned
CliReturned == pc = "exited" /\ ret.kind = "return"

\* C11: in the command-line wrapper, whenever analyze_banner returns a
\* result with success = true, the JSON artifact is written and the process
\* does not exit with status 1: for a single image the artifact is exactly
\* the result payload, for a PDF it is the full PDF result with every
\* per-image entry; when success = false no artifact is written.
C11_SuccessSavesArtifact ==
    CliReturned =>
        IF ret.value.success
        THEN /\ exit_status # "1"
             /\ artifact.state = "written"
             /\ artifact.content = IF IsPdf(file_path) THEN ret.value ELSE ret.value.result
        ELSE artifact = NoArtifact

\* the images analyze_banner has to analyse
ImagesToAnalyse == IF IsPdf(file_path) THEN Len(images) ELSE 1

\* C12 as stated: no stage is retried; for one image the encode step and the
\* remote vision call are each executed at most once per analyze_banner
\* call, so a PDF batch of N extracted images makes exactly N remote vision
\* calls.
C12_NoStageRetried ==
    /\ ~IsPdf(file_path) => encodes <= 1 /\ vision_calls <= 1
    /\ PdfSucceeded => vision_calls = Len(images)

\* C12, amended: one call of the tool encodes at most once and makes at
\* most one remote vision call, and the agent calls the tool at most
\* max_iterations times for one image, one image after the other; so an
\* image costs at most max_iterations encodes and remote vision calls, and a
\* PDF batch of N extracted images at most max_iterations * N.
C12_AtMostMaxIterationsPerImage ==
    /\ vision_calls <= encodes
    /\ tool_calls <= max_iterations
    /\ iterations <= max_iterations
    /\ agents_created <= ImagesToAnalyse
    /\ encodes <= max_iterations * agents_created
    /\ pc \in {"agent", "parse"} =>
          /\ IsPdf(file_path) => agents_created = idx
          /\ encodes <= max_iterations * (agents_created - 1) + tool_calls

\* a PDF batch of two images that made max_iterations remote vision calls
\* for each image
C12_Witness ==
    /\ PdfSucceeded
    /\ Len(images) = 2
    /\ vision_calls = 2 * max_iterations

\* C13: for every file path that analyze_banner routes to the PDF branch (a
\* path ending in .pdf in any letter case), the directory that
\* extract_images_from_pdf writes into is a sibling of the PDF and a path
\* different from the PDF file itself, so that the directory can be created.
C13_OutputDirIsSibling ==
    (IsPdf(file_path) /\ extraction # "no") =>
        /\ OutputDir(file_path) # file_path
        /\ OutputDir(file_path) \notin files
        /\ Dirname(OutputDir(file_path)) = Dirname(file_path)

\* the places of the embedded images of a document: page and index in the page
Places(pages) ==
    {q \in (1..Len(pages)) \X (1..SumLen(pages)) : q[2] <= Len(pages[q[1]])}

\* place q comes before place r: page order, then the index within the page
Before(q, r) == q[1] < r[1] \/ (q[1] = r[1] /\ q[2] < r[2])

\* the rank of place q among the places of a document
Rank(pages, q) == Cardinality({r \in Places(pages) : Before(r, q)}) + 1

\* the file that lines 40-47 write for the image at place q
PlacePath(pages, q) ==
    PathJoin(OutputDir(file_path), ImageName(q[1] - 1, q[2] - 1, pages[q[1]][q[2]]))

\* C14: whenever the PDF branch returns success = true, results holds
\* exactly one entry per extracted image, in the order the extractor
\* returned the paths (page order, then image index within the page), image
\* k+1 is not started before the analysis of image k has returned, and
\* images_analyzed equals the length of results.
C14_OneEntryPerImageInOrder ==
    /\ (IsPdf(file_path) /\ pc \in {"create", "agent", "parse"}) =>
          /\ idx \in 1..Len(images)
          /\ cur = images[idx]
          /\ Len(all_results) = idx - 1
    /\ PdfSucceeded =>
          /\ Len(ret.value.results) = Len(images)
          /\ ret.value.images_analyzed = Len(ret.value.results)
          /\ Len(images) = Cardinality(Places(doc.pages))
          /\ \A q \in Places(doc.pages) :
                /\ images[Rank(doc.pages, q)] = PlacePath(doc.pages, q)
                /\ ret.value.results[Rank(doc.pages, q)].success =>
                      ret.value.results[Rank(doc.pages, q)].image_file
                          = Basename(PlacePath(doc.pages, q))

\* a PDF with images on two pages whose batch succeeded, every image with a
\* result of its own
C14_Witness ==
    /\ PdfSucceeded
    /\ Len(doc.pages) = 2
    /\ Len(doc.pages[1]) = 1
    /\ Len(doc.pages[2]) = 1
    /\ \A k \in 1..Len(ret.value.results) : ret.value.results[k].success

====
